---- MODULE Spec2Model ----
(***************************************************************************)
(* Portfoliomanager1.py: the return series builder (update_data), the      *)
(* baseline statistics (calculate_portfolio_statistics), the three         *)
(* allocation strategies (MDP, EWP, RWP) and calculate_investments.        *)
(*                                                                         *)
(* Floats are held exactly: a value is a rational n/d in lowest terms, or  *)
(* NaN, or +/-Inf, with IEEE-754 rules for the special values (numpy and   *)
(* pandas divide by zero without raising).  A standard deviation is held   *)
(* by its radicand, a Sharpe ratio by its sign and its square.             *)
(***************************************************************************)
EXTENDS Integers, Sequences, FiniteSets, TLC

\* ------------------------------------------------------------ bounds
NumStocks == 2      \* instruments the data provider knows, named 1..NumStocks
NumDates == 4       \* trading dates of the analysis window
MaxPrice == 2       \* prices are 1..MaxPrice
MaxTx == 3          \* transactions in a transaction list
MaxTotal == 4       \* the amounts invested of a transaction list sum to MaxTotal at most
MaxGaps == 1        \* missing quotes in the instrument price table
GridDen == 2        \* the solver's weights are multiples of 1/GridDen

\* The column label yfinance gives a single-ticker download.
AdjClose == 0

Stocks == 1..NumStocks
Dates == 1..NumDates
Prices == 1..MaxPrice

VARIABLES
    transactions,   \* the transaction list of the request
    stock_quotes,   \* provider: stock -> (date -> price), a date absent when not traded
    market_quotes,  \* provider: date -> price of ^GSPC, a date absent when not traded
    set_order,      \* iteration order of a Python set of symbols (the hash seed)
    fill_method,    \* pandas' default of pct_change: "pad" (< 3.0) or "none"
    call,           \* the operation invoked, "idle" before
    result          \* what the operation returned

vars == <<transactions, stock_quotes, market_quotes, set_order, fill_method, call, result>>

\* ------------------------------------------------------------ floats
Abs(x) == IF x < 0 THEN -x ELSE x

Sign(x) == IF x < 0 THEN -1 ELSE IF x = 0 THEN 0 ELSE 1

RECURSIVE GCD(_, _)
GCD(a, b) == IF b = 0 THEN a ELSE GCD(b, a % b)

\* The rational n/d (d # 0) in lowest terms with a positive denominator.
Num(n, d) ==
    LET g == GCD(Abs(n), Abs(d))
        s == IF d < 0 THEN -1 ELSE 1
    IN  [k |-> "num", n |-> (s * n) \div g, d |-> (s * d) \div g]

NaN == [k |-> "nan", n |-> 0, d |-> 1]

Inf(s) == [k |-> "inf", n |-> s, d |-> 1]

FInt(i) == Num(i, 1)

IsNaN(x) == x.k = "nan"

FSign(x) == Sign(x.n)

FNeg(x) == [x EXCEPT !.n = -x.n]

FAdd(x, y) ==
    IF IsNaN(x) \/ IsNaN(y) THEN NaN
    ELSE IF x.k = "inf" /\ y.k = "inf" THEN (IF x.n = y.n THEN x ELSE NaN)
    ELSE IF x.k = "inf" THEN x
    ELSE IF y.k = "inf" THEN y
    ELSE LET g == GCD(x.d, y.d)
         IN  Num(x.n * (y.d \div g) + y.n * (x.d \div g), (x.d \div g) * y.d)

FSub(x, y) == FAdd(x, FNeg(y))

FMul(x, y) ==
    IF IsNaN(x) \/ IsNaN(y) THEN NaN
    ELSE IF x.k = "inf" \/ y.k = "inf"
         THEN (IF FSign(x) * FSign(y) = 0 THEN NaN ELSE Inf(FSign(x) * FSign(y)))
    ELSE LET g == GCD(Abs(x.n), y.d)
             h == GCD(Abs(y.n), x.d)
         IN  Num((x.n \div g) * (y.n \div h), (x.d \div h) * (y.d \div g))

\* x / y of two float64: x/0 is +/-Inf, 0/0 is NaN, nothing is raised.
FDiv(x, y) ==
    IF IsNaN(x) \/ IsNaN(y) THEN NaN
    ELSE IF x.k = "inf" THEN (IF y.k = "inf" THEN NaN
                              ELSE Inf(x.n * (IF y.n < 0 THEN -1 ELSE 1)))
    ELSE IF y.k = "inf" THEN FInt(0)
    ELSE IF y.n = 0 THEN (IF x.n = 0 THEN NaN ELSE Inf(Sign(x.n)))
    ELSE LET g == GCD(Abs(x.n), Abs(y.n))
             h == GCD(x.d, y.d)
         IN  Num((x.n \div g) * (y.d \div h), (x.d \div h) * (y.n \div g))

RECURSIVE FSum(_)
FSum(xs) == IF xs = <<>> THEN FInt(0) ELSE FAdd(Head(xs), FSum(Tail(xs)))

\* np.mean of an array: sum / len, NaN for an empty array.
np_mean(xs) == FDiv(FSum(xs), FInt(Len(xs)))

\* np.var with ddof=0.
np_var(xs) ==
    LET m == np_mean(xs)
    IN  np_mean([i \in 1..Len(xs) |-> FMul(FSub(xs[i], m), FSub(xs[i], m))])

\* np.std with ddof=0, held by its radicand.
np_std(xs) == [sqrt_of |-> np_var(xs)]

\* mean / std of two float64: the quotient by sign and square.
SharpeQuotient(mean, std) ==
    LET v == std.sqrt_of
    IN  IF IsNaN(mean) \/ IsNaN(v) THEN [k |-> "nan", sgn |-> 0, sq |-> NaN]
        ELSE IF mean.k = "inf" THEN [k |-> "inf", sgn |-> mean.n, sq |-> NaN]
        ELSE IF v.n = 0
             THEN (IF mean.n = 0 THEN [k |-> "nan", sgn |-> 0, sq |-> NaN]
                   ELSE [k |-> "inf", sgn |-> Sign(mean.n), sq |-> NaN])
        ELSE [k |-> "num", sgn |-> Sign(mean.n), sq |-> FDiv(FMul(mean, mean), v)]

\* np.cov(x, y)[0][1]: ddof=1, the factor len - 1 clipped at 0.
np_cov01(xs, ys) ==
    LET mx == np_mean(xs)
        my == np_mean(ys)
        fact == IF Len(xs) > 1 THEN Len(xs) - 1 ELSE 0
    IN  FMul(FSum([i \in 1..Len(xs) |-> FMul(FSub(xs[i], mx), FSub(ys[i], my))]),
             FDiv(FInt(1), FInt(fact)))

\* ------------------------------------------------------------ tables
Range(f) == {f[i] : i \in DOMAIN f}

Min(S) == CHOOSE x \in S : \A y \in S : x <= y

\* The elements of a set of labels in ascending order.
RECURSIVE Sorted(_)
Sorted(S) == IF S = {} THEN <<>> ELSE <<Min(S)>> \o Sorted(S \ {Min(S)})

\* list(set(...)): the distinct symbols in the set's iteration order.
SetToList(S) == SelectSeq(set_order, LAMBDA s : s \in S)

\* A DataFrame is [index, columns, data] with data[date][column]; a Series is
\* [index, data] with data[label]. index and columns are sequences: the order
\* of the rows and of the columns is part of the value, as .values reads it.

\* yf.download(stock_symbols, start, end)['Adj Close'] (a single-ticker
\* download keeps one 'Adj Close' column): the provider's rows are the dates
\* on which any requested ticker traded, ascending, and its columns the
\* tickers in alphabetical order, NaN where a ticker has no quote.
yf_download(stock_symbols) ==
    IF Len(stock_symbols) = 1
    THEN LET q == stock_quotes[stock_symbols[1]]
         IN  [index |-> Sorted(DOMAIN q), columns |-> <<AdjClose>>,
              data |-> [d \in DOMAIN q |-> [c \in {AdjClose} |-> FInt(q[d])]]]
    ELSE LET syms == Range(stock_symbols)
             days == UNION {DOMAIN stock_quotes[s] : s \in syms}
         IN  [index |-> Sorted(days), columns |-> Sorted(syms),
              data |-> [d \in days |-> [s \in syms |->
                          IF d \in DOMAIN stock_quotes[s]
                          THEN FInt(stock_quotes[s][d]) ELSE NaN]]]

\* list({transaction[0] for transaction in transactions}).
selected_stocks_of(txs) == SetToList({txs[i][1] : i \in DOMAIN txs})

load_stock_data(txs) ==
    LET stock_symbols == selected_stocks_of(txs)
        stock_data == yf_download(stock_symbols)
    IN  IF Len(stock_symbols) = 1
        THEN [stock_data EXCEPT
                !.columns = <<stock_symbols[1]>>,
                !.data = [d \in DOMAIN stock_data.data |->
                            [c \in {stock_symbols[1]} |-> stock_data.data[d][AdjClose]]]]
        ELSE stock_data

\* yf.download("^GSPC", start, end)['Adj Close'].
load_market_data ==
    [index |-> Sorted(DOMAIN market_quotes),
     data |-> [d \in DOMAIN market_quotes |-> FInt(market_quotes[d])]]

\* Row i of a column after pct_change's fill: with fill_method "pad" a NaN
\* takes the last value above it.
RECURSIVE Filled(_, _, _)
Filled(frame, i, c) ==
    LET v == frame.data[frame.index[i]][c]
    IN  IF IsNaN(v) /\ fill_method = "pad" /\ i > 1 THEN Filled(frame, i - 1, c) ELSE v

\* DataFrame.pct_change(): filled / filled.shift(1) - 1, the first row NaN.
pct_change(frame) ==
    [frame EXCEPT !.data =
        [d \in DOMAIN frame.data |-> [c \in Range(frame.columns) |->
            LET i == CHOOSE j \in DOMAIN frame.index : frame.index[j] = d
            IN  IF i = 1 THEN NaN
                ELSE FSub(FDiv(Filled(frame, i, c), Filled(frame, i - 1, c)), FInt(1))]]]

\* DataFrame.dropna(): the rows without a NaN, in their order.
dropna(frame) ==
    LET keep(d) == \A c \in Range(frame.columns) : ~IsNaN(frame.data[d][c])
        idx == SelectSeq(frame.index, keep)
    IN  [frame EXCEPT !.index = idx,
                      !.data = [d \in Range(idx) |-> frame.data[d]]]

\* Series.pct_change(); the benchmark series holds no NaN to fill.
series_pct_change(series) ==
    [series EXCEPT !.data =
        [d \in DOMAIN series.data |->
            LET i == CHOOSE j \in DOMAIN series.index : series.index[j] = d
            IN  IF i = 1 THEN NaN
                ELSE FSub(FDiv(series.data[d], series.data[series.index[i - 1]]), FInt(1))]]

series_dropna(series) ==
    LET idx == SelectSeq(series.index, LAMBDA d : ~IsNaN(series.data[d]))
    IN  [index |-> idx, data |-> [d \in Range(idx) |-> series.data[d]]]

\* Series.reindex(index): the rows of index in its order, NaN where the
\* series has no such row.
reindex(series, index) ==
    [index |-> index,
     data |-> [d \in Range(index) |->
                 IF d \in DOMAIN series.data THEN series.data[d] ELSE NaN]]

\* DataFrame.loc[index]: the rows named by index, in its order.
loc(frame, index) ==
    [frame EXCEPT !.index = index,
                  !.data = [d \in Range(index) |-> frame.data[d]]]

\* Series.loc[index].
series_loc(series, index) ==
    [index |-> index, data |-> [d \in Range(index) |-> series.data[d]]]

\* DataFrame[columns]: the named columns in the order asked.
select_columns(frame, cols) ==
    [frame EXCEPT !.columns = cols,
                  !.data = [d \in DOMAIN frame.data |->
                              [c \in Range(cols) |-> frame.data[d][c]]]]

\* DataFrame.values: row i, column j by position.
values(frame) ==
    [i \in 1..Len(frame.index) |->
        [j \in 1..Len(frame.columns) |-> frame.data[frame.index[i]][frame.columns[j]]]]

series_values(series) == [i \in 1..Len(series.index) |-> series.data[series.index[i]]]

\* np.dot(matrix, weights.reshape(-1, 1)).flatten().
np_dot(matrix, weights) ==
    [i \in 1..Len(matrix) |->
        FSum([j \in 1..Len(weights) |-> FMul(matrix[i][j], weights[j])])]

\* update_data without its line 45: the instrument rows are not cut to the
\* benchmark's.
update_data_keeps_rows(txs) ==
    LET stock_data == load_stock_data(txs)
        daily_returns0 == dropna(pct_change(stock_data))
        market0 == series_dropna(series_pct_change(load_market_data))
        market_daily_returns == series_dropna(reindex(market0, daily_returns0.index))
    IN  [daily_returns |-> daily_returns0, market_daily_returns |-> market_daily_returns]

update_data(txs) ==
    LET stock_data == load_stock_data(txs)
        daily_returns0 == dropna(pct_change(stock_data))
        market0 == series_dropna(series_pct_change(load_market_data))
        market_daily_returns == series_dropna(reindex(market0, daily_returns0.index))
        daily_returns == loc(daily_returns0, market_daily_returns.index)
    IN  [daily_returns |-> daily_returns, market_daily_returns |-> market_daily_returns]


\* ------------------------------------------------------------ statistics
\* pd.Series(array, index=index).
to_series(array, index) ==
    [index |-> index,
     data |-> [d \in Range(index) |->
                 array[CHOOSE i \in DOMAIN index : index[i] = d]]]

\* The statistics block each of the four functions ends with: the portfolio
\* daily returns of the whole matrix, their mean, risk and Sharpe ratio, then
\* beta over the rows the benchmark shares.
statistics(daily_returns, portfolio_weights) ==
    LET portfolio_daily_returns == np_dot(values(daily_returns), portfolio_weights)
        portfolio_return == np_mean(portfolio_daily_returns)
        portfolio_risk == np_std(portfolio_daily_returns)
        sharpe_ratio == SharpeQuotient(portfolio_return, portfolio_risk)
        market0 == series_dropna(series_pct_change(load_market_data))
        market_daily_returns == series_dropna(reindex(market0, daily_returns.index))
        aligned == series_loc(to_series(portfolio_daily_returns, daily_returns.index),
                              market_daily_returns.index)
        beta == FDiv(np_cov01(series_values(aligned), series_values(market_daily_returns)),
                     np_var(series_values(market_daily_returns)))
    IN  [portfolio_daily_returns |-> portfolio_daily_returns,
         portfolio_return |-> portfolio_return,
         portfolio_risk |-> portfolio_risk,
         sharpe_ratio |-> sharpe_ratio,
         beta |-> beta]

\* sum(transaction[3] for transaction in txs).
RECURSIVE sum_amounts(_)
sum_amounts(txs) == IF txs = <<>> THEN 0 ELSE Head(txs)[4] + sum_amounts(Tail(txs))

\* The loop over the transactions: invested_amounts[stock].
invested_amount(txs, stock) == sum_amounts(SelectSeq(txs, LAMBDA t : t[1] = stock))

calculate_portfolio_statistics(txs) ==
    LET stock_data == load_stock_data(txs)
        daily_returns == dropna(pct_change(stock_data))
        unique_stocks == daily_returns.columns
        keys == selected_stocks_of(txs)
        total_invested == FSum([i \in 1..Len(keys) |-> FInt(invested_amount(txs, keys[i]))])
        portfolio_weights == [i \in 1..Len(unique_stocks) |->
            FDiv(FInt(invested_amount(txs, unique_stocks[i])), total_invested)]
        st == statistics(daily_returns, portfolio_weights)
    IN  [raised |-> "none",
         portfolio_weights |-> portfolio_weights,
         portfolio_daily_returns |-> st.portfolio_daily_returns,
         portfolio_return |-> st.portfolio_return,
         portfolio_risk |-> st.portfolio_risk,
         sharpe_ratio |-> st.sharpe_ratio,
         beta |-> st.beta]

\* ------------------------------------------------------------ allocation
\* yf.download(stock_symbols, period="1d")["Adj Close"] and its last row: a
\* Series over the provider's columns. A single-ticker download is a Series,
\* turned into a frame whose one column is named 'Adj Close'. iloc[-1] of a
\* table without rows raises IndexError.
get_current_prices(stock_symbols) ==
    LET stock_data == yf_download(stock_symbols)
        last == stock_data.index[Len(stock_data.index)]
    IN  IF stock_data.index = <<>> THEN [raised |-> "IndexError"]
        ELSE [raised |-> "none",
              index |-> stock_data.columns,
              data |-> stock_data.data[last]]

\* The dict comprehension over zip(current_prices.index, weights): zip stops
\* at the shorter of the two, a later pair replaces an earlier one of the
\* same key.
calculate_investments(txs, weights, current_prices) ==
    LET total_investment == sum_amounts(txs)
        n == IF Len(current_prices.index) < Len(weights)
             THEN Len(current_prices.index) ELSE Len(weights)
        last(stock) == CHOOSE i \in 1..n : /\ current_prices.index[i] = stock
                                           /\ \A j \in (i + 1)..n : current_prices.index[j] # stock
    IN  [stock \in {current_prices.index[i] : i \in 1..n} |->
            FMul(weights[last(stock)], FInt(total_investment))]

\* Index.get_loc(label), counted from 1.
get_loc(columns, label) == CHOOSE i \in DOMAIN columns : columns[i] = label

\* The loop of EWP_inner from its i-th stock on, weight being the array so far.
RECURSIVE EWP_loop(_, _, _, _)
EWP_loop(returns, selected_stocks, i, weight) ==
    IF i > Len(selected_stocks) THEN weight
    ELSE EWP_loop(returns, selected_stocks, i + 1,
                  [weight EXCEPT ![get_loc(returns.columns, selected_stocks[i])] =
                      FDiv(FInt(1), FInt(Len(selected_stocks)))])

\* EWP_inner with its loop begun one stock late.
EWP_inner_skips_first(returns, selected_stocks) ==
    EWP_loop(returns, selected_stocks, 2, [j \in 1..Len(returns.columns) |-> FInt(0)])

EWP_inner(returns, selected_stocks) ==
    EWP_loop(returns, selected_stocks, 1, [j \in 1..Len(returns.columns) |-> FInt(0)])

\* DataFrame.sum(): the sum of each column, a Series over the columns.
column_sums(frame) ==
    [i \in 1..Len(frame.columns) |->
        FSum([r \in 1..Len(frame.index) |-> frame.data[frame.index[r]][frame.columns[i]]])]

\* The inner RWP: each column's summed returns over the sum of them all, a
\* pandas division.
RWP_inner(returns, selected_stocks) ==
    LET sums == column_sums(select_columns(returns, selected_stocks))
    IN  [i \in 1..Len(sums) |-> FDiv(sums[i], FSum(sums))]

\* The vectors with n components in 0..GridDen that sum to GridDen, over GridDen.
WeightGrid(n) ==
    LET RECURSIVE Total(_, _)
        Total(w, i) == IF i = 0 THEN 0 ELSE w[i] + Total(w, i - 1)
    IN  {[i \in 1..n |-> Num(w[i], GridDen)] :
            w \in {v \in [1..n -> 0..GridDen] : Total(v, n) = GridDen}}

\* sol.x of scipy's SLSQP under bounds (0, 1) and the constraint sum(x) = 1:
\* the solver's iteration is not part of this program; what it returns is
\* any point of the feasible set, the set of outcomes given here.
calculate_MDP_weights(returns) == WeightGrid(Len(returns.columns))

\* What MDP, EWP and RWP do alike once the weights are computed: current
\* prices, investments, and the statistics of the full matrix daily_returns
\* under the weights.
allocate(txs, daily_returns, selected_returns, weights) ==
    LET current_prices == get_current_prices(selected_returns.columns)
        st == statistics(daily_returns, weights)
    IN  IF current_prices.raised # "none" THEN [raised |-> current_prices.raised]
        ELSE [raised |-> "none",
              weights |-> weights,
              columns |-> selected_returns.columns,
              investments |-> calculate_investments(txs, weights, current_prices),
              daily_returns |-> daily_returns,
              portfolio_daily_returns |-> st.portfolio_daily_returns,
              portfolio_return |-> st.portfolio_return,
              portfolio_risk |-> st.portfolio_risk,
              sharpe_ratio |-> st.sharpe_ratio,
              beta |-> st.beta]

selected_returns_of(txs) ==
    select_columns(update_data(txs).daily_returns, selected_stocks_of(txs))

MDP(txs, mdp_weights) ==
    allocate(txs, update_data(txs).daily_returns, selected_returns_of(txs), mdp_weights)

EWP(txs) ==
    allocate(txs, update_data(txs).daily_returns, selected_returns_of(txs),
             EWP_inner(selected_returns_of(txs), selected_stocks_of(txs)))

RWP(txs) ==
    allocate(txs, update_data(txs).daily_returns, selected_returns_of(txs),
             RWP_inner(selected_returns_of(txs), selected_stocks_of(txs)))


\* ------------------------------------------------------------ requests
\* A transaction is (instrument, date, quantity, amount_invested); the
\* program reads the first and the last component only.
Transactions(maxlen) ==
    {txs \in UNION {[1..n -> {<<s, 1, 1, a>> : s \in Stocks, a \in 1..MaxTotal}] :
                        n \in 1..maxlen} : sum_amounts(txs) <= MaxTotal}

\* One transaction per instrument, of amounts 1, 2, ...
OnePerStock == [s \in Stocks |-> <<s, 1, 1, s>>]

Orders(S) ==
    {p \in [1..Cardinality(S) -> S] : \A i, j \in DOMAIN p : p[i] = p[j] => i = j}

\* A price table without gaps whose prices rise and fall.
SteadyQuotes == [s \in Stocks |-> [d \in Dates |-> 1 + ((s + d) % MaxPrice)]]

SteadyMarket == [d \in Dates |-> 1 + (d % MaxPrice)]

\* The sets of missing quotes: at most MaxGaps of them, or one instrument
\* without any quote in the range.
GapSets ==
    {G \in SUBSET (Stocks \X Dates) : Cardinality(G) <= MaxGaps}
        \cup {{s} \X Dates : s \in Stocks}

\* Requests that differ in the prices: any table without gaps.
InitReturns ==
    /\ transactions \in Transactions(NumStocks)
    /\ stock_quotes \in [Stocks -> [Dates -> Prices]]
    /\ market_quotes = SteadyMarket
    /\ set_order \in Orders(Stocks)
    /\ fill_method = "pad"
    /\ call = "idle"
    /\ result = [raised |-> "none"]

\* Requests that differ in the transaction list.
InitTx ==
    /\ transactions \in Transactions(MaxTx)
    /\ stock_quotes = SteadyQuotes
    /\ market_quotes = SteadyMarket
    /\ set_order \in Orders(Stocks)
    /\ fill_method = "pad"
    /\ call = "idle"
    /\ result = [raised |-> "none"]

\* Requests that differ in the dates the instruments and the benchmark have
\* quotes on, under either default of pct_change.
InitAlign ==
    /\ transactions = OnePerStock
    /\ \E G \in GapSets :
          stock_quotes = [s \in Stocks |->
              [d \in {e \in Dates : <<s, e>> \notin G} |-> SteadyQuotes[s][d]]]
    /\ \E P \in SUBSET Dates : market_quotes = [d \in P |-> SteadyMarket[d]]
    /\ set_order = [i \in 1..NumStocks |-> NumStocks + 1 - i]
    /\ fill_method \in {"pad", "none"}
    /\ call = "idle"
    /\ result = [raised |-> "none"]

Init == InitReturns \/ InitTx \/ InitAlign

inputs == <<transactions, stock_quotes, market_quotes, set_order, fill_method>>

Do_update_data ==
    /\ call = "idle"
    /\ call' = "update_data"
    /\ result' = [raised |-> "none",
                  daily_returns |-> update_data(transactions).daily_returns,
                  market_daily_returns |-> update_data(transactions).market_daily_returns]
    /\ UNCHANGED inputs

Do_calculate_portfolio_statistics ==
    /\ call = "idle"
    /\ call' = "calculate_portfolio_statistics"
    /\ result' = calculate_portfolio_statistics(transactions)
    /\ UNCHANGED inputs

Do_MDP ==
    /\ call = "idle"
    /\ call' = "MDP"
    /\ \E mdp_weights \in calculate_MDP_weights(selected_returns_of(transactions)) :
          result' = MDP(transactions, mdp_weights)
    /\ UNCHANGED inputs

Do_EWP ==
    /\ call = "idle"
    /\ call' = "EWP"
    /\ result' = EWP(transactions)
    /\ UNCHANGED inputs

Do_RWP ==
    /\ call = "idle"
    /\ call' = "RWP"
    /\ result' = RWP(transactions)
    /\ UNCHANGED inputs

\* calculate_investments called on its own: any weights that sum to 1, any
\* current prices Series.
Do_calculate_investments ==
    /\ call = "idle"
    /\ call' = "calculate_investments"
    /\ \E n \in 1..NumStocks : \E weights \in WeightGrid(n) : \E S \in SUBSET Stocks :
          LET current_prices == [index |-> Sorted(S),
                                 data |-> [s \in S |-> FInt(SteadyQuotes[s][NumDates])]]
          IN  result' = [raised |-> "none",
                         weights |-> weights,
                         current_prices |-> current_prices,
                         investments |->
                             calculate_investments(transactions, weights, current_prices)]
    /\ UNCHANGED inputs

Next ==
    \/ Do_update_data
    \/ Do_calculate_portfolio_statistics
    \/ Do_MDP
    \/ Do_EWP
    \/ Do_RWP
    \/ Do_calculate_investments

Spec == Init /\ [][Next]_vars

SpecReturns == InitReturns /\ [][Next]_vars

SpecTx == InitTx /\ [][Next]_vars

SpecAlign == InitAlign /\ [][Next]_vars


\* ------------------------------------------------------------ properties
IsStrategy == call \in {"MDP", "EWP", "RWP"}

Returned == result.raised = "none"

\* The distinct instruments of the transaction list.
Selected == {transactions[i][1] : i \in DOMAIN transactions}

InUnitInterval(x) == x.k = "num" /\ 0 <= x.n /\ x.n <= x.d

Ascending(seq) == \A i, j \in DOMAIN seq : i < j => seq[i] < seq[j]

RECURSIVE SumOver(_, _)
SumOver(f, S) ==
    IF S = {} THEN FInt(0)
    ELSE LET x == CHOOSE y \in S : TRUE IN FAdd(f[x], SumOver(f, S \ {x}))

\* The grand total of the summed daily returns of the aligned matrix.
GrandTotal == FSum(column_sums(result.daily_returns))

\* C1: every weight vector a strategy returns sums to 1 and has each
\* component in [0, 1], whatever the signs of the summed daily returns.
\* Stated at the inputs whose grand total is not zero; C6 is about the others.
C1_WeightsAreValid ==
    (IsStrategy /\ Returned /\ GrandTotal # FInt(0)) =>
        /\ FSum(result.weights) = FInt(1)
        /\ \A i \in DOMAIN result.weights : InUnitInterval(result.weights[i])

\* C2: with two or more instruments, the amount calculate_investments assigns
\* to an instrument is the weight the strategy computed for that instrument
\* times total_invested. Stated for EWP and RWP, whose weights the program
\* computes itself (MDP's are the solver's).
C2_InvestmentFollowsWeight ==
    (call \in {"EWP", "RWP"} /\ Returned /\ Len(result.columns) >= 2) =>
        \A i \in DOMAIN result.columns :
            /\ result.columns[i] \in DOMAIN result.investments
            /\ result.investments[result.columns[i]]
                   = FMul(result.weights[i], FInt(sum_amounts(transactions)))

\* C3: for weights that sum to 1 the amounts of the mapping returned by
\* calculate_investments sum to total_invested, whatever the length of
\* current_prices.
C3_InvestmentsSumToTotal ==
    (\/ call = "calculate_investments"
     \/ (IsStrategy /\ Returned /\ FSum(result.weights) = FInt(1))) =>
        SumOver(result.investments, DOMAIN result.investments)
            = FInt(sum_amounts(transactions))

\* C4: EWP gives each of the N distinct instruments the weight 1/N, and no
\* other entry.
C4_EqualWeights ==
    (call = "EWP" /\ Returned) =>
        /\ Len(result.weights) = Cardinality(Selected)
        /\ \A s \in Selected : \E i \in DOMAIN result.columns :
              /\ result.columns[i] = s
              /\ result.weights[i] = Num(1, Cardinality(Selected))

\* An EWP call on two instruments, one of them named by two transactions,
\* the transactions not in the instruments' alphabetical order.
C4_Witness ==
    /\ call = "EWP" /\ Returned
    /\ Cardinality(Selected) = 2
    /\ Len(transactions) = 3
    /\ transactions[1][1] > transactions[2][1]
    /\ result.weights = <<Num(1, 2), Num(1, 2)>>

\* C5: a call whose portfolio daily returns have zero risk does not return:
\* it ends in a division-by-zero failure, and no returned sharpe_ratio is Inf
\* or NaN.
C5_ZeroRiskFails ==
    (call \in {"calculate_portfolio_statistics", "MDP", "EWP", "RWP"} /\ Returned) =>
        /\ result.portfolio_risk.sqrt_of # FInt(0)
        /\ result.sharpe_ratio.k = "num"

\* C6: RWP does not return when the grand total of the summed daily returns
\* is zero: no returned weight, investment or statistic is Inf or NaN.
C6_ZeroTotalFails ==
    (call = "RWP" /\ Returned) =>
        /\ GrandTotal # FInt(0)
        /\ \A i \in DOMAIN result.weights : result.weights[i].k = "num"
        /\ \A s \in DOMAIN result.investments : result.investments[s].k = "num"

\* C7: update_data never returns a pair of empty return series (it fails
\* with DataUnavailable instead).
C7_NoEmptySeries ==
    (call = "update_data" /\ Returned) =>
        ~(result.daily_returns.index = <<>> /\ result.market_daily_returns.index = <<>>)

\* The dates on which every instrument has a defined return.
InstrumentReturnDates ==
    LET r == pct_change(load_stock_data(transactions))
    IN  {d \in DOMAIN r.data : \A c \in Range(r.columns) : ~IsNaN(r.data[d][c])}

\* The dates on which the benchmark has a defined return.
BenchmarkReturnDates ==
    LET r == series_pct_change(load_market_data)
    IN  {d \in DOMAIN r.data : ~IsNaN(r.data[d])}

\* C8: the two series update_data returns have the same dates in the same
\* ascending order, and these are the dates on which every instrument and
\* the benchmark have a defined return.
C8_AlignedDates ==
    (call = "update_data" /\ Returned) =>
        /\ result.daily_returns.index = result.market_daily_returns.index
        /\ Ascending(result.daily_returns.index)
        /\ Range(result.daily_returns.index)
               = InstrumentReturnDates \cap BenchmarkReturnDates
        /\ DOMAIN result.daily_returns.data = Range(result.daily_returns.index)
        /\ DOMAIN result.market_daily_returns.data = Range(result.daily_returns.index)

\* update_data has returned a non-empty pair where the instruments have a
\* return date the benchmark lacks and the benchmark one the instruments lack.
C8_Witness ==
    /\ call = "update_data" /\ Returned
    /\ result.daily_returns.index # <<>>
    /\ InstrumentReturnDates \ BenchmarkReturnDates # {}
    /\ BenchmarkReturnDates \ InstrumentReturnDates # {}

\* The portfolio daily returns of the baseline call on the dates common to
\* the instrument returns and the benchmark returns.
CommonPortfolioReturns ==
    LET daily_returns == dropna(pct_change(load_stock_data(transactions)))
        common == update_data(transactions).market_daily_returns.index
    IN  series_values(series_loc(
            to_series(result.portfolio_daily_returns, daily_returns.index), common))

\* C9: the baseline call computes mean_return, risk, sharpe_ratio and beta
\* over the dates common to instrument returns and benchmark returns. Stated
\* at the inputs with two common dates or more, where all four are defined.
C9_StatisticsOverCommonDates ==
    (call = "calculate_portfolio_statistics" /\ Returned
        /\ Len(update_data(transactions).market_daily_returns.index) >= 2) =>
        LET common == CommonPortfolioReturns
            market == series_values(update_data(transactions).market_daily_returns)
        IN  /\ result.portfolio_return = np_mean(common)
            /\ result.portfolio_risk = np_std(common)
            /\ result.sharpe_ratio = SharpeQuotient(np_mean(common), np_std(common))
            /\ result.beta = FDiv(np_cov01(common, market), np_var(market))

\* C10: with two or more instruments, a strategy's portfolio daily return on
\* each aligned date is the sum over the instruments of the instrument's
\* weight times that instrument's return on the date. Stated for EWP and
\* RWP, whose weights the program computes itself (MDP's are the solver's).
C10_PortfolioReturnIsDotProduct ==
    (call \in {"EWP", "RWP"} /\ Returned /\ Len(result.columns) >= 2) =>
        \A r \in DOMAIN result.daily_returns.index :
            result.portfolio_daily_returns[r]
                = FSum([i \in DOMAIN result.columns |->
                          FMul(result.weights[i],
                               result.daily_returns.data[result.daily_returns.index[r]]
                                                        [result.columns[i]])])


====
